---- MODULE Spec2Model ----
(***************************************************************************)
(* A model of the photon ray tracer: vector and matrix arithmetic, rays,   *)
(* the geometric primitives and their intersection routines, and the       *)
(* scene's closest-hit query, light accumulation and recursive trace.      *)
(*                                                                         *)
(* f64 values are modelled as fixed-point numbers: the integer n stands    *)
(* for the real n / Scale, and every multiplication, division and square   *)
(* root rounds its exact result to the nearest such number, as IEEE        *)
(* arithmetic rounds to the nearest f64.  Arithmetic on small integers is  *)
(* therefore exact, as it is in f64.                                       *)
(***************************************************************************)
EXTENDS Integers, Sequences, FiniteSets, TLC

\* The resolution of the fixed-point stand-in for f64: 1.0 is Scale.
Scale == 1024

\* ------------------------------------------------------------------------
\* Scalar arithmetic (f64)

Abs(x) == IF x < 0 THEN -x ELSE x

Sgn(x) == IF x < 0 THEN -1 ELSE 1

\* n / d rounded to the nearest integer (ties away from zero), d # 0.
RoundDiv(n, d) ==
    LET an == Abs(n)
        ad == Abs(d)
        q  == an \div ad
        r  == an % ad
    IN  Sgn(n) * Sgn(d) * (IF 2 * r >= ad THEN q + 1 ELSE q)

\* The f64 of the integer literal n, and of the decimal literal n / d.
F(n) == n * Scale

FQ(n, d) == RoundDiv(n * Scale, d)

\* a * b and a / b on f64.
FMul(a, b) == RoundDiv(a * b, Scale)

FDiv(a, b) == RoundDiv(a * Scale, b)

RECURSIVE SqrtSearch(_, _, _)
SqrtSearch(x, lo, hi) ==
    IF lo >= hi THEN lo
    ELSE LET mid == (lo + hi + 1) \div 2
         IN  IF mid * mid <= x THEN SqrtSearch(x, mid, hi)
                               ELSE SqrtSearch(x, lo, mid - 1)

\* The integer nearest to the square root of x >= 0.
ISqrt(x) ==
    LET r == SqrtSearch(x, 0, 46340)
    IN  IF x - r * r > r THEN r + 1 ELSE r

\* f64::sqrt.
FSqrt(a) == ISqrt(a * Scale)

\* ------------------------------------------------------------------------
\* Vec3<f64>                                                  (src/vec3.rs)

Vec3_new(x, y, z) == [x |-> x, y |-> y, z |-> z]

\* A Vec3 of integer literals.
V(x, y, z) == Vec3_new(F(x), F(y), F(z))

Vec3_scale(v, factor) ==
    Vec3_new(FMul(v.x, factor), FMul(v.y, factor), FMul(v.z, factor))

Vec3_dot(v, o) == FMul(v.x, o.x) + FMul(v.y, o.y) + FMul(v.z, o.z)

Vec3_len(v) == FSqrt(FMul(v.x, v.x) + FMul(v.y, v.y) + FMul(v.z, v.z))

Vec3_unit(v) ==
    LET len == Vec3_len(v)
    IN  Vec3_new(FDiv(v.x, len), FDiv(v.y, len), FDiv(v.z, len))

Vec3_inverse(v) == Vec3_new(-v.x, -v.y, -v.z)

Vec3_add(v, o) == Vec3_new(v.x + o.x, v.y + o.y, v.z + o.z)

Vec3_sub(v, o) == Vec3_new(v.x - o.x, v.y - o.y, v.z - o.z)

\* Vec3::cross is called by geometry/mesh.rs and is not among the sources;
\* it is the cross product the specification names.
Vec3_cross(v, o) ==
    Vec3_new(FMul(v.y, o.z) - FMul(v.z, o.y),
             FMul(v.z, o.x) - FMul(v.x, o.z),
             FMul(v.x, o.y) - FMul(v.y, o.x))

\* ------------------------------------------------------------------------
\* Vec4<f64>, indexed 1..4 for the source's 0..3              (src/vec4.rs)

Vec4_new(x, y, z, w) == <<x, y, z, w>>

Vec4_from_Vec3(v) == Vec4_new(v.x, v.y, v.z, F(1))

Vec4_into_Vec3(v) == Vec3_new(v[1], v[2], v[3])

\* ------------------------------------------------------------------------
\* Matrix4x4<f64>: four rows of Vec4, m[i + 1][j + 1] for the source's
\* self.0[i][j].                                            (src/matrix.rs)

Matrix4x4_new(v) == <<v[1], v[2], v[3], v[4]>>

Matrix4x4_identity ==
    Matrix4x4_new(<< <<F(1), 0, 0, 0>>, <<0, F(1), 0, 0>>,
                     <<0, 0, F(1), 0>>, <<0, 0, 0, F(1)>> >>)

\* impl Mul<Vec4<T>> for &Matrix4x4<T>: the first term of the rows 1, 2 and 3
\* takes vec[1], vec[2] and vec[3], as the source does.
Matrix4x4_mul_vec4(m, vec) ==
    Vec4_new(
        FMul(vec[1], m[1][1]) + FMul(vec[2], m[1][2]) + FMul(vec[3], m[1][3]) + FMul(vec[4], m[1][4]),
        FMul(vec[2], m[2][1]) + FMul(vec[2], m[2][2]) + FMul(vec[3], m[2][3]) + FMul(vec[4], m[2][4]),
        FMul(vec[3], m[3][1]) + FMul(vec[2], m[3][2]) + FMul(vec[3], m[3][3]) + FMul(vec[4], m[3][4]),
        FMul(vec[4], m[4][1]) + FMul(vec[2], m[4][2]) + FMul(vec[3], m[4][3]) + FMul(vec[4], m[4][4]))

Matrix4x4_inverse(a) ==
    LET s0 == FMul(a[1][1], a[2][2]) - FMul(a[2][1], a[1][2])
        s1 == FMul(a[1][1], a[2][3]) - FMul(a[2][1], a[1][3])
        s2 == FMul(a[1][1], a[2][4]) - FMul(a[2][1], a[1][4])
        s3 == FMul(a[1][2], a[2][3]) - FMul(a[2][2], a[1][3])
        s4 == FMul(a[1][2], a[2][4]) - FMul(a[2][2], a[1][4])
        s5 == FMul(a[1][3], a[2][4]) - FMul(a[2][3], a[1][4])
        c5 == FMul(a[3][3], a[4][4]) - FMul(a[4][3], a[3][4])
        c4 == FMul(a[3][2], a[4][4]) - FMul(a[4][2], a[3][4])
        c3 == FMul(a[3][2], a[4][3]) - FMul(a[4][2], a[3][3])
        c2 == FMul(a[3][1], a[4][4]) - FMul(a[4][1], a[3][4])
        c1 == FMul(a[3][1], a[4][3]) - FMul(a[4][1], a[3][3])
        c0 == FMul(a[3][1], a[4][2]) - FMul(a[4][1], a[3][2])
        inv_det == FDiv(F(1), FMul(s0, c5) - FMul(s1, c4) + FMul(s2, c3)
                              + FMul(s3, c2) - FMul(s4, c1) + FMul(s5, c0))
        E(p, x, q, y, r, z) ==
            FMul(FMul(p, x) + FMul(q, y) + FMul(r, z), inv_det)
    IN  Matrix4x4_new(<<
          << E( a[2][2], c5, -a[2][3], c4,  a[2][4], c3),
             E(-a[1][2], c5,  a[1][3], c4, -a[1][4], c3),
             E( a[4][2], s5, -a[4][3], s4,  a[4][4], s3),
             E(-a[3][2], s5,  a[3][3], s4, -a[3][4], s3) >>,
          << E(-a[2][1], c5,  a[2][3], c2, -a[2][4], c1),
             E( a[1][1], c5, -a[1][3], c2,  a[1][4], c1),
             E(-a[4][1], s5,  a[4][3], s2, -a[4][4], s1),
             E( a[3][1], s5, -a[3][3], s2,  a[3][4], s1) >>,
          << E( a[2][1], c4, -a[2][2], c2,  a[2][4], c0),
             E(-a[1][1], c4,  a[1][2], c2, -a[1][4], c0),
             E( a[4][1], s4, -a[4][2], s2,  a[4][4], s0),
             E(-a[3][1], s4,  a[3][2], s2, -a[3][4], s0) >>,
          << E(-a[2][1], c3,  a[2][2], c1, -a[2][3], c0),
             E( a[1][1], c3, -a[1][2], c1,  a[1][3], c0),
             E(-a[4][1], s3,  a[4][2], s1, -a[4][3], s0),
             E( a[3][1], s3, -a[3][2], s1,  a[3][3], s0) >> >>)

Matrix4x4_transform_normal(n, inv) ==
    Vec3_new(FMul(inv[1][1], n.x) + FMul(inv[2][1], n.y) + FMul(inv[3][1], n.z),
             FMul(inv[1][2], n.x) + FMul(inv[2][2], n.y) + FMul(inv[3][2], n.z),
             FMul(inv[1][3], n.x) + FMul(inv[2][3], n.y) + FMul(inv[3][3], n.z))

\* impl Mul<Matrix4x4<f64>> for Matrix4x4<f64>.
Matrix4x4_mul(m, o) ==
    [i \in 1..4 |-> [j \in 1..4 |->
        FMul(m[i][1], o[1][j]) + FMul(m[i][2], o[2][j])
        + FMul(m[i][3], o[3][j]) + FMul(m[i][4], o[4][j])]]

\* ------------------------------------------------------------------------
\* Option<T>

None == [some |-> FALSE]

Some(v) == [some |-> TRUE, v |-> v]

\* ------------------------------------------------------------------------
\* Ray<f64>                                                    (src/ray.rs)

\* 1.0e-6, the start of a shadow or reflection ray's interval and the
\* plane's parallel threshold: below the model's resolution, it is the
\* smallest positive number.
Epsilon == 1

\* f64::EPSILON, the triangle's parallel threshold: likewise.
F64_EPSILON == 1

\* 1.0e20, the end of every ray's interval: above every number the model's
\* arithmetic produces.
Huge == 2000000000

\* f64::INFINITY.
INFINITY == 2147483647

\* std::ops::Range<f64>, start..end.
Range(start, end) == [start |-> start, end |-> end]

Ray_new(origin, direction, range) ==
    [origin |-> origin, direction |-> Vec3_unit(direction), range |-> range]

Ray_offset(ray, t) == Vec3_add(ray.origin, Vec3_scale(ray.direction, t))

\* Range::contains: start <= t < end.
Ray_contains(ray, t) == ray.range.start <= t /\ t < ray.range.end

Ray_transform(ray, transformation) ==
    [ray EXCEPT
        !.origin = Vec4_into_Vec3(
            Matrix4x4_mul_vec4(transformation, Vec4_from_Vec3(ray.origin))),
        !.direction = Vec4_into_Vec3(
            Matrix4x4_mul_vec4(transformation, Vec4_from_Vec3(ray.direction)))]

\* ------------------------------------------------------------------------
\* Intersection                                       (src/intersection.rs)

Intersection_new(t, point, normal) ==
    [t |-> t, point |-> point, normal |-> normal]

\* ------------------------------------------------------------------------
\* Sphere                                          (src/geometry/sphere.rs)

Sphere(center, radius) ==
    [type |-> "sphere", center |-> center, radius |-> radius]

Sphere_intersection(self, ray) ==
    LET oc == Vec3_sub(ray.origin, self.center)
        a  == Vec3_dot(ray.direction, ray.direction)
        b  == FMul(F(2), Vec3_dot(oc, ray.direction))
        c  == Vec3_dot(oc, oc) - FMul(self.radius, self.radius)
        discriminant == FMul(b, b) - FMul(FMul(F(4), a), c)
    IN  IF discriminant < 0 THEN None
        ELSE LET sqrt == FSqrt(discriminant)
                 denominator == FMul(F(2), a)
                 x1 == FDiv(-b + sqrt, denominator)
                 x2 == FDiv(-b - sqrt, denominator)
                 t  == IF x1 < x2 THEN x1 ELSE x2
                 intersection == Ray_offset(ray, t)
                 normal == Vec3_unit(Vec3_sub(intersection, self.center))
             IN  Some(Intersection_new(t, intersection, normal))

Sphere_transform(self, transformation) ==
    LET vec4 == Matrix4x4_mul_vec4(transformation,
                    Vec4_new(self.center.x, self.center.y, self.center.z, F(1)))
    IN  [self EXCEPT !.center = Vec3_new(vec4[1], vec4[2], vec4[3])]

\* ------------------------------------------------------------------------
\* Plane                                            (src/geometry/plane.rs)

Plane(point, normal) ==
    [type |-> "plane", point |-> point, normal |-> normal]

Plane_intersection(self, ray) ==
    LET denominator == Vec3_dot(self.normal, ray.direction)
    IN  IF Abs(denominator) >= Epsilon
        THEN LET p0r0 == Vec3_sub(self.point, ray.origin)
                 t    == FDiv(Vec3_dot(p0r0, self.normal), denominator)
             IN  Some(Intersection_new(t,
                        Vec3_add(ray.origin, Vec3_scale(ray.direction, t)),
                        self.normal))
        ELSE None

Plane_transform(self, transformation) ==
    [self EXCEPT
        !.point = Vec4_into_Vec3(
            Matrix4x4_mul_vec4(transformation, Vec4_from_Vec3(self.point))),
        !.normal = Vec4_into_Vec3(
            Matrix4x4_mul_vec4(transformation, Vec4_from_Vec3(self.normal)))]

\* ------------------------------------------------------------------------
\* Triangle and Mesh; vertices[i + 1] for the source's vertices[i]
\*                                                   (src/geometry/mesh.rs)

Triangle_new(vertices) ==
    LET n == Vec3_unit(Vec3_cross(vertices[1], vertices[2]))
    IN  [type |-> "triangle", vertices |-> vertices, normals |-> <<n, n, n>>]

Triangle_with_normals(self, normals) == [self EXCEPT !.normals = normals]

Triangle_intersection(self, ray) ==
    LET e1 == Vec3_sub(self.vertices[2], self.vertices[1])
        e2 == Vec3_sub(self.vertices[3], self.vertices[1])
        p  == Vec3_cross(ray.direction, e2)
        determinant == Vec3_dot(e1, p)
    IN  IF Abs(determinant) < F64_EPSILON THEN None
        ELSE
        LET inv_det == FDiv(F(1), determinant)
            s    == Vec3_sub(ray.origin, self.vertices[1])
            beta == FMul(inv_det, Vec3_dot(s, p))
        IN  IF beta < 0 \/ beta > F(1) THEN None
            ELSE
            LET q     == Vec3_cross(s, e1)
                gamma == FMul(inv_det, Vec3_dot(ray.direction, q))
            IN  IF gamma < 0 \/ beta + gamma > F(1) THEN None
                ELSE
                LET t == FMul(inv_det, Vec3_dot(e2, q))
                IN  IF Ray_contains(ray, t)
                    THEN LET alpha == F(1) - beta - gamma
                             n == Vec3_add(
                                    Vec3_add(Vec3_scale(self.normals[1], alpha),
                                             Vec3_scale(self.normals[2], beta)),
                                    Vec3_scale(self.normals[3], gamma))
                         IN  Some([t |-> t, normal |-> n,
                                   point |-> Ray_offset(ray, t)])
                    ELSE None

Triangle_transform(self, transformation) ==
    LET P(v) == Vec4_into_Vec3(
                    Matrix4x4_mul_vec4(transformation, Vec4_from_Vec3(v)))
        inverse == Matrix4x4_inverse(transformation)
        N(n) == Matrix4x4_transform_normal(n, inverse)
    IN  [self EXCEPT
            !.vertices = <<P(self.vertices[1]), P(self.vertices[2]),
                           P(self.vertices[3])>>,
            !.normals = <<N(self.normals[1]), N(self.normals[2]),
                          N(self.normals[3])>>]

Mesh(triangles) == [type |-> "mesh", triangles |-> triangles]

\* The loop of Mesh::intersection from triangle k on, with the loop's
\* variables t and closest.
\* A slip in the loop's test: a hit as close as the closest so far replaces
\* it.
RECURSIVE Mesh_intersection_loop_orEqual(_, _, _, _, _)
Mesh_intersection_loop_orEqual(self, ray, k, t, closest) ==
    IF k > Len(self.triangles) THEN closest
    ELSE LET intersection == Triangle_intersection(self.triangles[k], ray)
         IN  IF intersection.some /\ intersection.v.t <= t
                /\ Ray_contains(ray, intersection.v.t)
             THEN Mesh_intersection_loop_orEqual(self, ray, k + 1,
                                                 intersection.v.t, intersection)
             ELSE Mesh_intersection_loop_orEqual(self, ray, k + 1, t, closest)

RECURSIVE Mesh_intersection_loop(_, _, _, _, _)
Mesh_intersection_loop(self, ray, k, t, closest) ==
    IF k > Len(self.triangles) THEN closest
    ELSE LET intersection == Triangle_intersection(self.triangles[k], ray)
         IN  IF intersection.some /\ intersection.v.t < t
                /\ Ray_contains(ray, intersection.v.t)
             THEN Mesh_intersection_loop(self, ray, k + 1,
                                         intersection.v.t, intersection)
             ELSE Mesh_intersection_loop(self, ray, k + 1, t, closest)

Mesh_intersection(self, ray) ==
    Mesh_intersection_loop(self, ray, 1, INFINITY, None)

Mesh_transform(self, transformation) ==
    [self EXCEPT !.triangles =
        [k \in 1..Len(self.triangles) |->
            Triangle_transform(self.triangles[k], transformation)]]

\* ------------------------------------------------------------------------
\* trait Geometry: Transform<f64>, dispatched on the variant
\*                                                    (src/geometry/mod.rs)

Geometry_intersection(g, ray) ==
    CASE g.type = "sphere"   -> Sphere_intersection(g, ray)
      [] g.type = "plane"    -> Plane_intersection(g, ray)
      [] g.type = "triangle" -> Triangle_intersection(g, ray)
      [] g.type = "mesh"     -> Mesh_intersection(g, ray)

Geometry_transform(g, transformation) ==
    CASE g.type = "sphere"   -> Sphere_transform(g, transformation)
      [] g.type = "plane"    -> Plane_transform(g, transformation)
      [] g.type = "triangle" -> Triangle_transform(g, transformation)
      [] g.type = "mesh"     -> Mesh_transform(g, transformation)

\* ------------------------------------------------------------------------
\* Integer casts and arithmetic of the colour channels and the depth

\* f64 as u8: the fraction is dropped; the cast saturates.
AsU8(x) == IF x < 0 THEN 0 ELSE IF x >= F(256) THEN 255 ELSE x \div Scale

\* u8 + u8 and u16 - u16, at their width.
U8Add(a, b) == (a + b) % 256

U16Sub(a, b) == (a - b) % 65536

\* ------------------------------------------------------------------------
\* Material, PointLight, Model, Scene                         (src/main.rs)

Material(color, reflective) == [color |-> color, reflective |-> reflective]

PointLight(intensity, position) ==
    [intensity |-> intensity, position |-> position]

Model(geometry, material) == [geometry |-> geometry, material |-> material]

PointLight_intensity(self, intersection) ==
    LET l == Vec3_sub(self.position, intersection.point)
        r == Vec3_dot(intersection.normal, l)
    IN  IF r > 0
        THEN FDiv(FMul(self.intensity, r),
                  FMul(Vec3_len(intersection.normal), Vec3_len(l)))
        ELSE 0

\* Scene::load starts from Scene::new(Rgb([30, 30, 30])) and pushes the
\* models; main pushes the lights.
Scene_new(background) ==
    [lights |-> << >>, objects |-> << >>, depth |-> 2,
     background |-> background]

\* A slip in the test: a hit as close as the closest so far replaces it.
CloserHit_orEqual(intersection, t, r) ==
    intersection.t <= t /\ Ray_contains(r, intersection.t)

\* The test of the loop of Scene::closest_intersection: the hit replaces
\* the closest one so far.
CloserHit(intersection, t, r) ==
    intersection.t < t /\ Ray_contains(r, intersection.t)

\* The loop of Scene::closest_intersection from model k on, with the loop's
\* variables t and closest; the model is held by its place in objects.
RECURSIVE Scene_closest_intersection_loop(_, _, _, _, _)
\* The body of the loop for model k, whose geometry returned intersection.
Scene_closest_intersection_body(self, r, k, t, closest, intersection) ==
    IF intersection.some /\ CloserHit(intersection.v, t, r)
    THEN Scene_closest_intersection_loop(self, r, k + 1, intersection.v.t,
             Some([model |-> k, intersection |-> intersection.v]))
    ELSE Scene_closest_intersection_loop(self, r, k + 1, t, closest)

Scene_closest_intersection_loop(self, r, k, t, closest) ==
    IF k > Len(self.objects) THEN closest
    ELSE Scene_closest_intersection_body(self, r, k, t, closest,
             Geometry_intersection(self.objects[k].geometry, r))

Scene_closest_intersection(self, r) ==
    Scene_closest_intersection_loop(self, r, 1, INFINITY, None)

\* The shadow ray of Scene::lightning toward a light.
ShadowRay(light, intersection) ==
    Ray_new(intersection.point,
            Vec3_sub(light.position, intersection.point),
            Range(Epsilon, Huge))

\* A slip in the test: a hit beyond the light does not occlude it.
Occluded_beforeLight(self, light, intersection) ==
    LET closest == Scene_closest_intersection(self, ShadowRay(light, intersection))
    IN  /\ closest.some
        /\ closest.v.intersection.t
               < Vec3_len(Vec3_sub(light.position, intersection.point))

\* The test of the loop of Scene::lightning: the light is skipped.
Occluded(self, light, intersection) ==
    Scene_closest_intersection(self, ShadowRay(light, intersection)).some

RECURSIVE Scene_lightning_loop(_, _, _, _)
Scene_lightning_loop(self, intersection, k, intensity) ==
    IF k > Len(self.lights) THEN intensity
    ELSE IF Occluded(self, self.lights[k], intersection)
         THEN Scene_lightning_loop(self, intersection, k + 1, intensity)
         ELSE Scene_lightning_loop(self, intersection, k + 1,
                  intensity + PointLight_intensity(self.lights[k], intersection))

Scene_lightning(self, intersection) ==
    Scene_lightning_loop(self, intersection, 1, 0)

\* The colour of the material under the light, channel by channel.
ShadeChannel(c, intensity) ==
    LET color == FMul(F(c), intensity)
    IN  IF color > F(255) THEN 255 ELSE AsU8(color)

Shade(color, intensity) ==
    [k \in 1..3 |-> ShadeChannel(color[k], intensity)]

\* A slip in the early return: the reflectivity is not tested.
TerminalCase_depthOnly(depth, reflective) == depth <= 0

\* A slip in the early return: the depth is not tested.
TerminalCase_reflectiveOnly(depth, reflective) == reflective <= 0

\* The early return of trace_limited.
TerminalCase(depth, reflective) == depth <= 0 \/ reflective <= 0

\* A slip in the recursive call: the depth is passed on as it is.
RecursionDepth_same(depth) == depth

\* The depth trace_limited passes to itself.
RecursionDepth(depth) == U16Sub(depth, 1)

\* The ray trace_limited casts from a hit.
ReflectionRay(r, i) ==
    LET n == Vec3_unit(i.normal)
        d == Vec3_inverse(r.direction)
        direction == Vec3_sub(Vec3_scale(n, FMul(F(2), Vec3_dot(n, d))), d)
    IN  Ray_new(i.point, direction, Range(Epsilon, Huge))

\* The colour trace_limited returns from the local and the reflected colour.
\* One channel of cr and of cl: the weighted term, cast to u8.
WeightedLocal(c, reflective) == AsU8(FMul(F(c), F(1) - reflective))

WeightedReflected(c, reflective) == AsU8(FMul(F(c), reflective))

Blend(color, reflected_color, reflective) ==
    LET cr == [k \in 1..3 |-> AsU8(FMul(F(color[k]), F(1) - reflective))]
        cl == [k \in 1..3 |-> AsU8(FMul(F(reflected_color[k]), reflective))]
    IN  [k \in 1..3 |-> U8Add(cr[k], cl[k])]

\* A slip in the default: black, not the background.
NoHitColor_black(self) == <<0, 0, 0>>

\* What trace_limited returns when nothing is hit.
NoHitColor(self) ==
    <<self.background[1], self.background[2], self.background[3]>>

\* Scene::trace_limited, run to completion by one thread: the whole of it,
\* its closure on a hit (m, i), and the closure from the light's intensity
\* on.
RECURSIVE Scene_trace_limited(_, _, _)
Scene_trace_limited_shaded(self, r, depth, closest, intensity) ==
    IF TerminalCase(depth,
                    self.objects[closest.v.model].material.reflective)
    THEN Shade(self.objects[closest.v.model].material.color, intensity)
    ELSE Blend(Shade(self.objects[closest.v.model].material.color, intensity),
               Scene_trace_limited(self,
                                   ReflectionRay(r, closest.v.intersection),
                                   RecursionDepth(depth)),
               self.objects[closest.v.model].material.reflective)

Scene_trace_limited_hit(self, r, depth, closest) ==
    IF ~closest.some THEN NoHitColor(self)
    ELSE Scene_trace_limited_shaded(self, r, depth, closest,
             Scene_lightning(self, closest.v.intersection))

Scene_trace_limited(self, r, depth) ==
    Scene_trace_limited_hit(self, r, depth,
                            Scene_closest_intersection(self, r))

Scene_trace(self, r) == Scene_trace_limited(self, r, self.depth)

\* ------------------------------------------------------------------------
\* main: the image, the viewport and the primary ray of a pixel

width == 800

height == 800

\* The buffer's chunk n is the pixel (n % width, n / width).
PrimaryRay(n, org, transformation) ==
    LET px == n % width
        py == n \div width
        sx == F(px) + FDiv(F(width), -F(2))
        sy == FDiv(F(height), F(2)) - F(py)
        vx == FDiv(FMul(sx, F(1)), F(width))
        vy == FDiv(FMul(sy, F(1)), F(height))
        vz == F(1)
    IN  Ray_transform(Ray_new(org, Vec3_new(vx, vy, vz), Range(F(1), Huge)),
                      transformation)

\* The four bytes main writes to the pixel's chunk.
Chunk(color) == <<color[3], color[2], color[1], 0>>

\* ========================================================================
\* State

VARIABLES
    geom,   \* the geometry an operation is applied to
    geom0,  \* the geometry as it was constructed
    ray,    \* the ray cast at geom
    hit,    \* what intersection(ray) returned
    mat,    \* a transformation matrix
    vec,    \* a Vec4
    out,    \* what mat * vec returned
    op,     \* the operation applied last
    vertices,  \* the vertices given to Triangle::new
    blend,     \* one pass through trace_limited's reflection branch
    scene,           \* the Scene: lights, objects, depth, background
    origin,          \* main's origin, the eye
    transformation,  \* main's transformation, applied to each primary ray
    task,            \* per pixel traced: its thread's position and call stack
    buf              \* the texture buffer: the chunk of each pixel traced

pureVars == <<geom, geom0, ray, hit, mat, vec, out, op, vertices, blend>>

sceneVars == <<scene, origin, transformation, task, buf>>

vars == <<geom, geom0, ray, hit, mat, vec, out, op, vertices, blend,
          scene, origin, transformation, task, buf>>

\* ------------------------------------------------------------------------
\* Bounds and input sets

\* The model traces the first NumPixels pixels of PixelSample, on at most
\* NumWorkers threads at a time, in scenes of depth 0..MaxDepth.
NumPixels == 2

NumWorkers == 2

MaxDepth == 2

\* Ray origins have coordinates in -RayCoord..RayCoord.
RayCoord == 2

\* A matrix differs from the identity in one entry, set to a whole number
\* in -MatEntry..MatEntry, or is a quarter turn.
MatEntry == 2

GeometryCatalog == <<
    Sphere(V(0, 0, 0), F(1)),
    Sphere(V(0, 1, 0), F(2)),
    Plane(V(0, -1, 0), V(0, 1, 0)),
    Triangle_new(<<V(-2, -2, 1), V(2, -2, 1), V(0, 2, 1)>>),
    Mesh(<<Triangle_new(<<V(-2, -2, 2), V(2, -2, 2), V(0, 2, 2)>>),
           Triangle_with_normals(
               Triangle_new(<<V(-2, -2, 1), V(2, -2, 1), V(0, 2, 1)>>),
               <<V(0, 0, -1), V(0, 0, -1), V(0, 0, -1)>>)>>),
    Mesh(<< >>),
    \* two triangles in the same place, with different normals
    Mesh(<<Triangle_with_normals(
               Triangle_new(<<V(-2, -2, 1), V(2, -2, 1), V(0, 2, 1)>>),
               <<V(0, 0, -1), V(0, 0, -1), V(0, 0, -1)>>),
           Triangle_new(<<V(-2, -2, 1), V(2, -2, 1), V(0, 2, 1)>>)>>) >>

OriginSet ==
    {V(0, y, z) : y \in -RayCoord..RayCoord, z \in -RayCoord..RayCoord}

DirectionSet ==
    {V(dx, dy, dz) : dx \in -1..1, dy \in -1..1, dz \in -1..1} \ {V(0, 0, 0)}

\* The intervals the program gives its rays: 1.0..1.0e20 to a primary ray,
\* 1.0e-6..1.0e20 to a shadow or reflection ray.
RangeSet == {Range(F(1), Huge), Range(Epsilon, Huge)}

\* The determinant, as Matrix4x4::inverse computes it.
Determinant(a) ==
    LET s0 == FMul(a[1][1], a[2][2]) - FMul(a[2][1], a[1][2])
        s1 == FMul(a[1][1], a[2][3]) - FMul(a[2][1], a[1][3])
        s2 == FMul(a[1][1], a[2][4]) - FMul(a[2][1], a[1][4])
        s3 == FMul(a[1][2], a[2][3]) - FMul(a[2][2], a[1][3])
        s4 == FMul(a[1][2], a[2][4]) - FMul(a[2][2], a[1][4])
        s5 == FMul(a[1][3], a[2][4]) - FMul(a[2][3], a[1][4])
        c5 == FMul(a[3][3], a[4][4]) - FMul(a[4][3], a[3][4])
        c4 == FMul(a[3][2], a[4][4]) - FMul(a[4][2], a[3][4])
        c3 == FMul(a[3][2], a[4][3]) - FMul(a[4][2], a[3][3])
        c2 == FMul(a[3][1], a[4][4]) - FMul(a[4][1], a[3][4])
        c1 == FMul(a[3][1], a[4][3]) - FMul(a[4][1], a[3][3])
        c0 == FMul(a[3][1], a[4][2]) - FMul(a[4][1], a[3][2])
    IN  FMul(s0, c5) - FMul(s1, c4) + FMul(s2, c3)
        + FMul(s3, c2) - FMul(s4, c1) + FMul(s5, c0)

\* A quarter turn about the z axis.
RotZ90 ==
    Matrix4x4_new(<< <<0, -F(1), 0, 0>>, <<F(1), 0, 0, 0>>,
                     <<0, 0, F(1), 0>>, <<0, 0, 0, F(1)>> >>)

\* Non-singular matrices whose inverse is exact.
MatrixSet ==
    {m \in {[Matrix4x4_identity EXCEPT ![i][j] = F(k)] :
                i \in 1..4, j \in 1..4, k \in -MatEntry..MatEntry}
           \cup {RotZ90} :
        Determinant(m) # 0}

Vec4Set == {Vec4_new(F(a), F(b), F(c), F(w)) :
                a \in 0..1, b \in 0..1, c \in 0..1, w \in 0..1}

\* Pixels of the 800 x 800 image, as chunk numbers: the centre (400, 400),
\* a pixel below it (400, 600), one to its left (200, 400), one above it
\* (400, 200).
PixelSample == <<320400, 480400, 320200, 160400>>

Pixels == 1..NumPixels

Matte(color) == Material(color, 0)

Mirror(color) == Material(color, FQ(1, 2))

\* The scenes a scene description may hold, in world space; main pushes the
\* lights.
SceneCatalog == <<
    \* no model at all
    [Scene_new(<<30, 30, 30>>) EXCEPT
        !.lights = <<PointLight(F(1), V(0, 5, -2))>>],
    \* two spheres in line with the eye, the farther one first
    [Scene_new(<<30, 30, 30>>) EXCEPT
        !.objects = <<Model(Sphere(V(0, 0, 6), F(1)), Matte(<<200, 0, 0>>)),
                      Model(Sphere(V(0, 0, 3), F(1)), Mirror(<<0, 200, 0>>))>>,
        !.lights = <<PointLight(F(1), V(0, 5, -2)),
                     PointLight(F(1), V(0, 0, 10))>>],
    \* a sphere, and a small one between it and the first and third lights
    [Scene_new(<<30, 30, 30>>) EXCEPT
        !.objects = <<Model(Sphere(V(0, 0, 3), F(1)), Matte(<<200, 100, 50>>)),
                      Model(Sphere(V(0, 2, 0), FQ(1, 2)), Matte(<<0, 0, 200>>))>>,
        !.lights = <<PointLight(FQ(1, 2), V(0, 4, -2)),
                     PointLight(FQ(1, 2), V(0, -4, -2)),
                     PointLight(FQ(1, 2), V(0, 1, 1))>>],
    \* two spheres in the same place
    [Scene_new(<<30, 30, 30>>) EXCEPT
        !.objects = <<Model(Sphere(V(0, 0, 3), F(1)), Matte(<<200, 0, 0>>)),
                      Model(Sphere(V(0, 0, 3), F(1)),
                            Material(<<0, 200, 0>>, F(1)))>>,
        !.lights = <<PointLight(F(1), V(0, 5, -2))>>],
    \* two mirrors that face each other
    [Scene_new(<<30, 30, 30>>) EXCEPT
        !.objects = <<Model(Plane(V(0, -1, 0), V(0, 1, 0)), Mirror(<<200, 200, 200>>)),
                      Model(Plane(V(0, 1, 0), V(0, -1, 0)), Mirror(<<100, 100, 100>>))>>,
        !.lights = <<PointLight(F(1), V(0, 0, 0))>>],
    \* a mirror floor, a mirror sphere above it and a mesh of one triangle
    [Scene_new(<<30, 30, 30>>) EXCEPT
        !.objects = <<Model(Plane(V(0, -1, 0), V(0, 1, 0)), Mirror(<<200, 200, 200>>)),
                      Model(Sphere(V(0, 0, 6), F(1)), Mirror(<<200, 0, 0>>)),
                      Model(Mesh(<<Triangle_with_normals(
                                       Triangle_new(<<V(-1, 0, 2), V(1, 0, 2), V(0, 3, 2)>>),
                                       <<V(0, 0, -1), V(0, 0, -1), V(0, 0, -1)>>)>>),
                            Matte(<<0, 0, 200>>))>>,
        !.lights = <<PointLight(F(1), V(0, 5, -2))>>],
    \* a sphere that reflects a quarter of what it sees
    [Scene_new(<<30, 30, 30>>) EXCEPT
        !.objects = <<Model(Sphere(V(0, 0, 3), F(1)),
                            Material(<<0, 200, 0>>, FQ(1, 4)))>>,
        !.lights = <<PointLight(F(1), V(0, 5, -2))>>] >>

\* ========================================================================
\* The scene's variables while no image is drawn.

\* No pass through the reflection branch has been made.
NoBlend ==
    [depth |-> 0, reflective |-> 0, color |-> 0, reflected_color |-> 0,
     pc |-> "idle", next_depth |-> 0, cr |-> 0, cl |-> 0, result |-> 0]

IdleTask == [pc |-> "todo", stack |-> << >>, ret |-> None, calls |-> 0]

SceneIdle ==
    /\ scene = Scene_new(<<30, 30, 30>>)
    /\ origin = V(0, 0, -2)
    /\ transformation = Matrix4x4_identity
    /\ task = [p \in Pixels |-> IdleTask]
    /\ buf = [p \in Pixels |-> <<0, 0, 0, 0>>]

\* ========================================================================
\* Intersection tests: a geometry and a ray are drawn, and the ray is cast.

InitGeom ==
    /\ \E i \in 1..Len(GeometryCatalog) : geom = GeometryCatalog[i]
    /\ geom0 = geom
    /\ \E o \in OriginSet, d \in DirectionSet, r \in RangeSet :
           ray = Ray_new(o, d, r)
    /\ hit = None
    /\ mat = Matrix4x4_identity
    /\ vec = Vec4_new(0, 0, 0, 0)
    /\ out = Vec4_new(0, 0, 0, 0)
    /\ op = "new"
    /\ vertices = GeometryCatalog[4].vertices
    /\ blend = NoBlend
    /\ SceneIdle

Intersect ==
    /\ op = "new"
    /\ hit' = Geometry_intersection(geom, ray)
    /\ op' = "intersection"
    /\ UNCHANGED <<geom, geom0, ray, mat, vec, out, vertices, blend>>
    /\ UNCHANGED sceneVars

NextGeom == Intersect

SpecGeom == InitGeom /\ [][NextGeom]_vars

\* ========================================================================
\* Transformations: a matrix is applied to a vector, and a geometry is
\* transformed by a matrix and then by the matrix's inverse.

InitMat ==
    /\ \E i \in 3..Len(GeometryCatalog) : geom = GeometryCatalog[i]
    /\ geom0 = geom
    /\ ray = Ray_new(V(0, 0, -2), V(0, 0, 1), Range(F(1), Huge))
    /\ hit = None
    /\ mat \in MatrixSet
    /\ vec \in Vec4Set
    /\ out = Vec4_new(0, 0, 0, 0)
    /\ op = "new"
    /\ vertices = GeometryCatalog[4].vertices
    /\ blend = NoBlend
    /\ SceneIdle

MulVec ==
    /\ op = "new"
    /\ out' = Matrix4x4_mul_vec4(mat, vec)
    /\ op' = "mul"
    /\ UNCHANGED <<geom, geom0, ray, hit, mat, vec, vertices, blend>>
    /\ UNCHANGED sceneVars

Transform ==
    /\ op = "new"
    /\ geom' = Geometry_transform(geom, mat)
    /\ op' = "transform"
    /\ UNCHANGED <<geom0, ray, hit, mat, vec, out, vertices, blend>>
    /\ UNCHANGED sceneVars

TransformInverse ==
    /\ op = "transform"
    /\ geom' = Geometry_transform(geom, Matrix4x4_inverse(mat))
    /\ op' = "roundtrip"
    /\ UNCHANGED <<geom0, ray, hit, mat, vec, out, vertices, blend>>
    /\ UNCHANGED sceneVars

NextMat == MulVec \/ Transform \/ TransformInverse

SpecMat == InitMat /\ [][NextMat]_vars

\* ========================================================================
\* Construction of a triangle from three vertices.

\* Vertices have whole coordinates in -TriCoord..TriCoord.
TriCoord == 1

VertexSet ==
    {V(x, y, z) : x \in -TriCoord..TriCoord, y \in -TriCoord..TriCoord,
                  z \in -TriCoord..TriCoord}

\* The triangle's two edges from its first vertex.
Edge1(vs) == Vec3_sub(vs[2], vs[1])

Edge2(vs) == Vec3_sub(vs[3], vs[1])

\* Triples that span a triangle and whose normal Triangle::new can
\* normalise: the vector it normalises is not zero.
VerticesSet ==
    {vs \in VertexSet \X VertexSet \X VertexSet :
        /\ Vec3_cross(Edge1(vs), Edge2(vs)) # V(0, 0, 0)
        /\ Vec3_cross(vs[1], vs[2]) # V(0, 0, 0)}

InitTri ==
    /\ vertices \in VerticesSet
    /\ blend = NoBlend
    /\ geom = GeometryCatalog[4]
    /\ geom0 = geom
    /\ ray = Ray_new(V(0, 0, -2), V(0, 0, 1), Range(F(1), Huge))
    /\ hit = None
    /\ mat = Matrix4x4_identity
    /\ vec = Vec4_new(0, 0, 0, 0)
    /\ out = Vec4_new(0, 0, 0, 0)
    /\ op = "new"
    /\ SceneIdle

TriangleNew ==
    /\ op = "new"
    /\ geom' = Triangle_new(vertices)
    /\ op' = "triangle"
    /\ UNCHANGED <<geom0, ray, hit, mat, vec, out, vertices, blend>>
    /\ UNCHANGED sceneVars

NextTri == TriangleNew

SpecTri == InitTri /\ [][NextTri]_vars

\* ========================================================================
\* A ray is constructed and then transformed, up to twice, as main
\* transforms each primary ray.

\* main's rot_y for b a quarter turn (and rot_x for a = 0, the identity:
\* transformation = rot_y * rot_x).
RotY90 ==
    Matrix4x4_new(<< <<0, 0, F(1), 0>>, <<0, F(1), 0, 0>>,
                     <<-F(1), 0, 0, 0>>, <<0, 0, 0, F(1)>> >>)

RayMatrixSet == MatrixSet \cup {RotY90}

InitRay ==
    /\ \E d \in DirectionSet :
           ray = Ray_new(V(0, 0, -2), d, Range(F(1), Huge))
    /\ geom = GeometryCatalog[1]
    /\ geom0 = geom
    /\ hit = None
    /\ mat = Matrix4x4_identity
    /\ vec = Vec4_new(0, 0, 0, 0)
    /\ out = Vec4_new(0, 0, 0, 0)
    /\ op = "new"
    /\ vertices = GeometryCatalog[4].vertices
    /\ blend = NoBlend
    /\ SceneIdle

RayTransform ==
    /\ op \in {"new", "transform"}
    /\ \E m \in RayMatrixSet :
           /\ mat' = m
           /\ ray' = Ray_transform(ray, m)
    /\ op' = IF op = "new" THEN "transform" ELSE "transform twice"
    /\ UNCHANGED <<geom, geom0, hit, vec, out, vertices, blend>>
    /\ UNCHANGED sceneVars

NextRay == RayTransform

SpecRay == InitRay /\ [][NextRay]_vars

\* ========================================================================
\* One pass through trace_limited from its early return on, for one colour
\* channel: given the depth, the reflectivity, the local colour and the
\* colour the recursive call returns.

\* The largest u8.
U8_MAX == 255

ChannelSet == 0..U8_MAX

\* The least, the middle and the largest channel values.
ChannelSamples == {0, 1, 127, 128, U8_MAX - 1, U8_MAX}

\* A local and a reflected channel value, one of them any value and the
\* other a sample.
ChannelPairs ==
    {cs \in ChannelSet \X ChannelSet :
        cs[1] \in ChannelSamples \/ cs[2] \in ChannelSamples}

\* Reflectivities: 0, the least one above 0, 1/4, 1/3, 1/2, 3/4, the
\* largest one below 1, and 1.
ReflectiveSet ==
    {0, 1, FQ(1, 4), FQ(1, 3), FQ(1, 2), FQ(3, 4), F(1) - 1, F(1)}

InitBlend ==
    /\ \E d \in 0..MaxDepth, r \in ReflectiveSet, cs \in ChannelPairs :
           blend = [NoBlend EXCEPT !.depth = d, !.reflective = r,
                                   !.color = cs[1],
                                   !.reflected_color = cs[2],
                                   !.pc = "shaded"]
    /\ geom = GeometryCatalog[1]
    /\ geom0 = geom
    /\ ray = Ray_new(V(0, 0, -2), V(0, 0, 1), Range(F(1), Huge))
    /\ hit = None
    /\ mat = Matrix4x4_identity
    /\ vec = Vec4_new(0, 0, 0, 0)
    /\ out = Vec4_new(0, 0, 0, 0)
    /\ op = "new"
    /\ vertices = GeometryCatalog[4].vertices
    /\ SceneIdle

\* The early return of the shaded colour.
ReturnShaded ==
    /\ blend.pc = "shaded"
    /\ TerminalCase(blend.depth, blend.reflective)
    /\ blend' = [blend EXCEPT !.pc = "returned", !.result = blend.color]
    /\ UNCHANGED <<geom, geom0, ray, hit, mat, vec, out, op, vertices>>
    /\ UNCHANGED sceneVars

\* The reflection branch: the depth of the recursive call, cr, cl and
\* their sum.
ReflectAndBlend ==
    /\ blend.pc = "shaded"
    /\ ~TerminalCase(blend.depth, blend.reflective)
    /\ blend' = [blend EXCEPT
           !.pc = "blended",
           !.next_depth = RecursionDepth(blend.depth),
           !.cr = WeightedLocal(blend.color, blend.reflective),
           !.cl = WeightedReflected(blend.reflected_color, blend.reflective),
           !.result = U8Add(WeightedLocal(blend.color, blend.reflective),
                            WeightedReflected(blend.reflected_color,
                                              blend.reflective))]
    /\ UNCHANGED <<geom, geom0, ray, hit, mat, vec, out, op, vertices>>
    /\ UNCHANGED sceneVars

NextBlend == ReturnShaded \/ ReflectAndBlend

SpecBlend == InitBlend /\ [][NextBlend]_vars

\* ========================================================================
\* Drawing one image: main's parallel loop over the buffer's chunks.  Each
\* pixel is traced by one thread, and at most NumWorkers threads run at a
\* time.  A thread's call stack holds one frame per invocation of
\* trace_limited; a frame keeps what the invocation has computed, and what
\* an invocation returned is kept with the frame that returned it.

NewFrame(r, depth) ==
    [ray |-> r, depth |-> depth, pc |-> "call", hit |-> None,
     intensity |-> 0, color |-> <<0, 0, 0>>]

Ret(color, frame, reflected) ==
    Some([color |-> color, frame |-> frame, reflected |-> reflected])

Top(stack) == stack[Len(stack)]

Pop(stack) == SubSeq(stack, 1, Len(stack) - 1)

Running == {p \in Pixels : task[p].pc = "run"}

Init ==
    /\ geom = GeometryCatalog[1]
    /\ geom0 = geom
    /\ ray = Ray_new(V(0, 0, -2), V(0, 0, 1), Range(F(1), Huge))
    /\ hit = None
    /\ mat = Matrix4x4_identity
    /\ vec = Vec4_new(0, 0, 0, 0)
    /\ out = Vec4_new(0, 0, 0, 0)
    /\ op = "draw"
    /\ vertices = GeometryCatalog[4].vertices
    /\ blend = NoBlend
    /\ \E i \in 1..Len(SceneCatalog), d \in 0..MaxDepth :
           scene = [SceneCatalog[i] EXCEPT !.depth = d]
    /\ origin = V(0, 0, -2)
    /\ transformation = Matrix4x4_identity
    /\ task = [p \in Pixels |-> IdleTask]
    /\ buf = [p \in Pixels |-> <<0, 0, 0, 0>>]

\* A slip in the bookkeeping: the depth left to the trace is kept in the
\* scene the threads share, not in the invocation.
Pixel_sharedDepth(p) ==
    /\ task[p].pc = "todo"
    /\ Cardinality(Running) < NumWorkers
    /\ task' = [task EXCEPT ![p] =
           [pc |-> "run",
            stack |-> <<NewFrame(PrimaryRay(PixelSample[p], origin, transformation),
                                 scene.depth)>>,
            ret |-> None,
            calls |-> 1]]
    /\ scene' = [scene EXCEPT !.depth = RecursionDepth(scene.depth)]
    /\ UNCHANGED <<origin, transformation, buf>>
    /\ UNCHANGED pureVars

\* A thread takes the chunk of pixel p: it builds the primary ray and calls
\* Scene::trace, which calls trace_limited with the scene's depth.
Pixel(p) ==
    /\ task[p].pc = "todo"
    /\ Cardinality(Running) < NumWorkers
    /\ task' = [task EXCEPT ![p] =
           [pc |-> "run",
            stack |-> <<NewFrame(PrimaryRay(PixelSample[p], origin, transformation),
                                 scene.depth)>>,
            ret |-> None,
            calls |-> 1]]
    /\ UNCHANGED <<scene, origin, transformation, buf>>
    /\ UNCHANGED pureVars

\* The invocation f on top of the stack, from the light's intensity on: it
\* returns the local colour, or casts the reflection ray and calls itself.
TraceLimitedShaded(t, f, closest, intensity) ==
    IF TerminalCase(f.depth,
                    scene.objects[closest.v.model].material.reflective)
    THEN [t EXCEPT
            !.stack = Pop(t.stack),
            !.ret = Ret(Shade(scene.objects[closest.v.model].material.color,
                              intensity),
                        [f EXCEPT
                            !.hit = closest, !.intensity = intensity,
                            !.color = Shade(scene.objects[closest.v.model].material.color,
                                            intensity)],
                        FALSE)]
    ELSE [t EXCEPT
            !.stack =
                Append(Pop(t.stack),
                       [f EXCEPT
                           !.pc = "wait",
                           !.hit = closest, !.intensity = intensity,
                           !.color = Shade(scene.objects[closest.v.model].material.color,
                                           intensity)])
                \o <<NewFrame(ReflectionRay(f.ray, closest.v.intersection),
                              RecursionDepth(f.depth))>>,
            !.ret = None,
            !.calls = t.calls + 1]

\* The invocation f on top of the stack, from the closest hit on.
TraceLimitedHit(t, f, closest) ==
    IF ~closest.some
    THEN [t EXCEPT !.stack = Pop(t.stack),
                   !.ret = Ret(NoHitColor(scene), f, FALSE)]
    ELSE TraceLimitedShaded(t, f, closest,
                            Scene_lightning(scene, closest.v.intersection))

\* The invocation on top of p's stack runs up to its return or up to its
\* recursive call.
TraceLimited(p) ==
    /\ task[p].pc = "run"
    /\ task[p].stack # << >>
    /\ Top(task[p].stack).pc = "call"
    /\ task' = [task EXCEPT ![p] =
           TraceLimitedHit(task[p], Top(task[p].stack),
               Scene_closest_intersection(scene, Top(task[p].stack).ray))]
    /\ UNCHANGED <<scene, origin, transformation, buf>>
    /\ UNCHANGED pureVars

\* The recursive call has returned: the invocation blends and returns.
Return(p) ==
    /\ task[p].pc = "run"
    /\ task[p].stack # << >>
    /\ Top(task[p].stack).pc = "wait"
    /\ task[p].ret.some
    /\ LET f == Top(task[p].stack)
           reflective == scene.objects[f.hit.v.model].material.reflective
       IN  task' = [task EXCEPT
               ![p].stack = Pop(task[p].stack),
               ![p].ret = Ret(Blend(f.color, task[p].ret.v.color, reflective),
                              f, TRUE)]
    /\ UNCHANGED <<scene, origin, transformation, buf>>
    /\ UNCHANGED pureVars

\* Scene::trace has returned: the thread writes the pixel's chunk.
WritePixel(p) ==
    /\ task[p].pc = "run"
    /\ task[p].stack = << >>
    /\ task[p].ret.some
    /\ buf' = [buf EXCEPT ![p] = Chunk(task[p].ret.v.color)]
    /\ task' = [task EXCEPT ![p].pc = "done"]
    /\ UNCHANGED <<scene, origin, transformation>>
    /\ UNCHANGED pureVars

Step(p) == Pixel(p) \/ TraceLimited(p) \/ Return(p) \/ WritePixel(p)

Next == \E p \in Pixels : Step(p)

Spec == Init /\ [][Next]_vars

\* ========================================================================
\* Claims about the primitives and the matrices

\* The least number of a non-empty finite set of numbers.
Min(S) == CHOOSE t \in S : \A u \in S : t <= u

\* The roots of |O + tD - C|^2 = r^2 along the ray.
SphereRoots(self, r) ==
    LET oc == Vec3_sub(r.origin, self.center)
        a  == Vec3_dot(r.direction, r.direction)
        b  == FMul(F(2), Vec3_dot(oc, r.direction))
        c  == Vec3_dot(oc, oc) - FMul(self.radius, self.radius)
        discriminant == FMul(b, b) - FMul(FMul(F(4), a), c)
    IN  IF discriminant < 0 THEN {}
        ELSE {FDiv(-b + FSqrt(discriminant), FMul(F(2), a)),
              FDiv(-b - FSqrt(discriminant), FMul(F(2), a))}

\* The root of N.(P - O) / N.D along the ray, unless the ray is parallel.
PlaneRoots(self, r) ==
    LET denominator == Vec3_dot(self.normal, r.direction)
    IN  IF Abs(denominator) < Epsilon THEN {}
        ELSE {FDiv(Vec3_dot(Vec3_sub(self.point, r.origin), self.normal),
                   denominator)}

\* The roots of a sphere or a plane that lie in the ray's interval.
ValidRoots(g, r) ==
    {t \in (IF g.type = "sphere" THEN SphereRoots(g, r) ELSE PlaneRoots(g, r)) :
        Ray_contains(r, t)}

\* C1: intersection(ray) returns the nearest root inside the ray's interval,
\* and nothing when no root lies inside it; whatever it returns has
\* ray.contains(t).
C1_NearestValidRoot ==
    op = "intersection" =>
        /\ hit.some => Ray_contains(ray, hit.v.t)
        /\ geom.type \in {"sphere", "plane"} =>
               IF ValidRoots(geom, ray) = {} THEN hit = None
               ELSE hit.some /\ hit.v.t = Min(ValidRoots(geom, ray))

\* The ray starts on the sphere's surface and leaves along the normal there.
OnSurfaceOutward(self, r) ==
    LET oc == Vec3_sub(r.origin, self.center)
    IN  /\ Vec3_len(oc) = self.radius
        /\ r.direction = Vec3_unit(oc)

\* C9: a ray that starts on a sphere's surface and points outward along the
\* normal, with an interval that starts at epsilon > 0, gets no
\* intersection reported by the sphere.
C9_SurfaceRayOutwardNoHit ==
    (/\ op = "intersection"
     /\ geom.type = "sphere"
     /\ OnSurfaceOutward(geom, ray)
     /\ ray.range.start >= Epsilon)
        => hit = None

\* The vertex positions of a triangle or a mesh.
Vertices(g) ==
    CASE g.type = "triangle" -> <<g.vertices>>
      [] g.type = "mesh" ->
            [k \in 1..Len(g.triangles) |-> g.triangles[k].vertices]
      [] OTHER -> << >>

\* C6: transform(M) followed by transform(M.inverse()) restores every vertex
\* of a triangle or a mesh, for every non-singular M.
C6_RoundTripRestoresVertices ==
    (op = "roundtrip" /\ geom0.type \in {"triangle", "mesh"})
        => Vertices(geom) = Vertices(geom0)

\* Row i of the standard matrix-vector product.
StandardRow(m, v, i) ==
    FMul(m[i][1], v[1]) + FMul(m[i][2], v[2])
    + FMul(m[i][3], v[3]) + FMul(m[i][4], v[4])

\* C7: M * v is the standard matrix-vector product, row by row.
C7_StandardProduct ==
    op = "mul" => \A i \in 1..4 : out[i] = StandardRow(mat, vec, i)

\* The defining points and the stored normals of a geometry, one sequence
\* per plane or triangle.
PointsOf(g) ==
    CASE g.type = "plane" -> << <<g.point>> >>
      [] g.type = "triangle" -> <<g.vertices>>
      [] g.type = "mesh" ->
            [k \in 1..Len(g.triangles) |-> g.triangles[k].vertices]
      [] OTHER -> << >>

NormalsOf(g) ==
    CASE g.type = "plane" -> << <<g.normal>> >>
      [] g.type = "triangle" -> <<g.normals>>
      [] g.type = "mesh" ->
            [k \in 1..Len(g.triangles) |-> g.triangles[k].normals]
      [] OTHER -> << >>

\* M applied to the homogeneous point (p, 1), by the standard product.
PointImage(m, p) ==
    Vec3_new(StandardRow(m, Vec4_from_Vec3(p), 1),
             StandardRow(m, Vec4_from_Vec3(p), 2),
             StandardRow(m, Vec4_from_Vec3(p), 3))

\* Component i of the transpose of inv's upper-left 3 x 3 block applied
\* to n.
TransposeRow(inv, n, i) ==
    FMul(inv[1][i], n.x) + FMul(inv[2][i], n.y) + FMul(inv[3][i], n.z)

\* The inverse-transpose of M applied to the normal n.
NormalImage(m, n) ==
    Vec3_new(TransposeRow(Matrix4x4_inverse(m), n, 1),
             TransposeRow(Matrix4x4_inverse(m), n, 2),
             TransposeRow(Matrix4x4_inverse(m), n, 3))

\* C12: transform(M) of a plane, a triangle or a mesh maps every defining
\* point p to M applied to (p, 1) and every stored normal n to the
\* inverse-transpose of M applied to n.
C12_PointsByMNormalsByInverseTranspose ==
    (op = "transform" /\ geom0.type \in {"plane", "triangle", "mesh"}) =>
        \A k \in 1..Len(PointsOf(geom0)) :
            \A j \in 1..Len(PointsOf(geom0)[k]) :
                /\ PointsOf(geom)[k][j] = PointImage(mat, PointsOf(geom0)[k][j])
                /\ NormalsOf(geom)[k][j] = NormalImage(mat, NormalsOf(geom0)[k][j])

\* What rounding may leave of the dot product of a unit vector and an edge
\* perpendicular to it, and of the length of a unit vector less 1, in units
\* of 1 / Scale.
Tolerance == 8

Perpendicular(n, e) == Abs(Vec3_dot(n, e)) <= Tolerance

\* C13: a triangle built by Triangle::new has three equal normals, which
\* are perpendicular to both of its edges, as cross(V1 - V0, V2 - V0) is.
C13_DefaultNormalIsGeometric ==
    op = "triangle" =>
        /\ geom.normals[1] = geom.normals[2]
        /\ geom.normals[2] = geom.normals[3]
        /\ Perpendicular(geom.normals[1], Edge1(vertices))
        /\ Perpendicular(geom.normals[1], Edge2(vertices))

\* C14: the direction of a ray has length 1 after Ray::new and after every
\* transform that follows.
C14_DirectionIsUnit == Abs(Vec3_len(ray.direction) - F(1)) <= Tolerance

\* The triangles of mesh g that report a hit for ray r, and the hit of
\* triangle k.
TriangleHits(g, r) ==
    {k \in 1..Len(g.triangles) : Triangle_intersection(g.triangles[k], r).some}

TriangleHit(g, r, k) == Triangle_intersection(g.triangles[k], r)

\* k is the first of the triangles of g whose hit has the least t.
FirstNearest(g, r, k) ==
    /\ k \in TriangleHits(g, r)
    /\ \A j \in TriangleHits(g, r) :
           /\ TriangleHit(g, r, k).v.t <= TriangleHit(g, r, j).v.t
           /\ TriangleHit(g, r, j).v.t = TriangleHit(g, r, k).v.t => k <= j

\* C15: Mesh::intersection returns the hit of least t among the hits its
\* triangles report, the first triangle's on equal t, and nothing when no
\* triangle reports a hit, as for a mesh without triangles.
C15_MeshNearestTriangle ==
    (op = "intersection" /\ geom.type = "mesh") =>
        IF TriangleHits(geom, ray) = {} THEN hit = None
        ELSE \E k \in TriangleHits(geom, ray) :
                 FirstNearest(geom, ray, k) /\ hit = TriangleHit(geom, ray, k)

\* Two triangles of a mesh report the same least t and different normals,
\* and the first one's hit is returned.
C15_MeshTieWitness ==
    /\ op = "intersection"
    /\ geom.type = "mesh"
    /\ \E k \in TriangleHits(geom, ray), j \in TriangleHits(geom, ray) :
           /\ k < j
           /\ FirstNearest(geom, ray, k)
           /\ TriangleHit(geom, ray, j).v.t = TriangleHit(geom, ray, k).v.t
           /\ TriangleHit(geom, ray, j) # TriangleHit(geom, ray, k)
           /\ hit = TriangleHit(geom, ray, k)

\* ========================================================================
\* Claims about the scene

\* The invocations of task p that have found their closest hit: the frames
\* that wait for their recursive call, and the frame that returned last.
WaitingFrames(p) ==
    {k \in 1..Len(task[p].stack) : task[p].stack[k].pc = "wait"}

Returned(p) == task[p].ret.some

\* The models whose geometry reports a hit inside the ray's interval.
Candidates(self, r) ==
    {k \in 1..Len(self.objects) :
        /\ Geometry_intersection(self.objects[k].geometry, r).some
        /\ Ray_contains(r,
               Geometry_intersection(self.objects[k].geometry, r).v.t)}

HitOf(self, r, k) == Geometry_intersection(self.objects[k].geometry, r).v

\* res is the candidate with the least t, the first of them in the scene's
\* order; it is nothing exactly when there is no candidate.
IsClosest(self, r, res) ==
    IF Candidates(self, r) = {} THEN res = None
    ELSE /\ res.some
         /\ res.v.model \in Candidates(self, r)
         /\ res.v.intersection = HitOf(self, r, res.v.model)
         /\ \A k \in Candidates(self, r) :
               /\ res.v.intersection.t <= HitOf(self, r, k).t
               /\ HitOf(self, r, k).t = res.v.intersection.t
                      => res.v.model <= k

\* C2: closest_intersection returns the model with the least t among those
\* that report a hit inside the ray's interval, the first in the scene's
\* order on equal t, and nothing exactly when none reports one: for the
\* ray of every invocation of trace_limited and for every shadow ray.
C2_ClosestHit ==
    \A p \in Pixels :
        /\ \A k \in WaitingFrames(p) :
               IsClosest(scene, task[p].stack[k].ray, task[p].stack[k].hit)
        /\ Returned(p) =>
               /\ IsClosest(scene, task[p].ret.v.frame.ray,
                            task[p].ret.v.frame.hit)
               /\ task[p].ret.v.frame.hit.some =>
                      \A l \in 1..Len(scene.lights) :
                          IsClosest(scene,
                              ShadowRay(scene.lights[l],
                                        task[p].ret.v.frame.hit.v.intersection),
                              Scene_closest_intersection(scene,
                                  ShadowRay(scene.lights[l],
                                            task[p].ret.v.frame.hit.v.intersection)))

\* Two models report the same least t, and the first is returned.
C2_TieWitness ==
    \E p \in Pixels :
        /\ Returned(p)
        /\ task[p].ret.v.frame.hit.some
        /\ \E k \in Candidates(scene, task[p].ret.v.frame.ray) :
               /\ k > task[p].ret.v.frame.hit.v.model
               /\ HitOf(scene, task[p].ret.v.frame.ray, k).t
                      = task[p].ret.v.frame.hit.v.intersection.t

\* Task p's next step is determined: its top invocation is about to run, or
\* is waiting and its recursive call has returned, or the trace has
\* returned and its colour is about to be written.
CanStep(p) ==
    IF task[p].stack = << >> THEN task[p].ret.some
    ELSE \/ Top(task[p].stack).pc = "call"
         \/ Top(task[p].stack).pc = "wait" /\ task[p].ret.some

\* C3: trace_limited is entered with the scene's depth, every recursive
\* call has a strictly smaller depth, a trace makes at most depth + 1
\* invocations, and a trace under way can always take its next step.
C3_DepthBoundsTheRecursion ==
    \A p \in Pixels :
        /\ task[p].calls <= scene.depth + 1
        /\ Len(task[p].stack) <= scene.depth + 1
        /\ task[p].stack # << >> => task[p].stack[1].depth = scene.depth
        /\ \A k \in 1..(Len(task[p].stack) - 1) :
               task[p].stack[k + 1].depth < task[p].stack[k].depth
        /\ task[p].pc = "run" => CanStep(p)

\* A trace has used all of its depth + 1 invocations, in a scene of depth 2
\* or more.
C3_DepthExhaustedWitness ==
    \E p \in Pixels :
        /\ scene.depth >= 2
        /\ task[p].calls = scene.depth + 1
        /\ task[p].pc = "done"

\* C4: a trace whose ray hits nothing returns the background colour, and in
\* a scene without models every pixel gets the background colour.
C4_BackgroundWhenNoHit ==
    \A p \in Pixels :
        /\ (Returned(p)
            /\ ~Scene_closest_intersection(scene, task[p].ret.v.frame.ray).some)
               => task[p].ret.v.color = scene.background
        /\ (task[p].pc = "done" /\ scene.objects = << >>)
               => buf[p] = Chunk(scene.background)

\* A pixel of a scene without models has been traced, with depth to spare.
C4_EmptySceneWitness ==
    \E p \in Pixels :
        task[p].pc = "done" /\ scene.objects = << >> /\ scene.depth > 0

\* The reflectivity of the model a frame has hit.
Reflective(f) == scene.objects[f.hit.v.model].material.reflective

\* The material's colour under the light at the closest hit of ray r.
LocalColor(self, r) ==
    Shade(self.objects[Scene_closest_intersection(self, r).v.model].material.color,
          Scene_lightning(self, Scene_closest_intersection(self, r).v.intersection))

\* C5: an invocation that hits a model of reflectivity <= 0 casts no
\* reflection ray and returns the locally shaded colour, which depends on
\* the ray alone and not on the depth.
C5_NoReflectionWhenNotReflective ==
    \A p \in Pixels :
        /\ \A k \in WaitingFrames(p) : Reflective(task[p].stack[k]) > 0
        /\ (/\ Returned(p)
            /\ task[p].ret.v.frame.hit.some
            /\ Reflective(task[p].ret.v.frame) <= 0)
               => /\ ~task[p].ret.v.reflected
                  /\ task[p].ret.v.color
                         = LocalColor(scene, task[p].ret.v.frame.ray)

\* An invocation with depth to spare has hit a model of reflectivity 0 and
\* returned.
C5_MatteHitWitness ==
    \E p \in Pixels :
        /\ Returned(p)
        /\ task[p].ret.v.frame.hit.some
        /\ Reflective(task[p].ret.v.frame) <= 0
        /\ task[p].ret.v.frame.depth > 0

\* What Scene::trace returns for pixel p when it is traced alone.
TracedAlone(p) ==
    Scene_trace(scene, PrimaryRay(PixelSample[p], origin, transformation))

\* C8: while the threads trace, no step writes the scene, and every pixel
\* gets the colour it gets when traced alone, whatever the interleaving.
C8_SceneReadOnlyOrderIndependent ==
    /\ [][scene' = scene]_vars
    /\ [](\A p \in Pixels :
              task[p].pc = "done" => buf[p] = Chunk(TracedAlone(p)))

\* A later pixel is done while an earlier one is in the middle of its
\* recursion.
C8_OutOfOrderWitness ==
    \E p \in Pixels, q \in Pixels :
        /\ q < p
        /\ task[p].pc = "done"
        /\ task[q].pc = "run"
        /\ Len(task[q].stack) >= 2

\* The lights whose shadow ray from intersection i hits no model.
Unoccluded(self, i) ==
    {l \in 1..Len(self.lights) :
        ~Scene_closest_intersection(self, ShadowRay(self.lights[l], i)).some}

RECURSIVE SumIntensity(_, _, _)
SumIntensity(self, i, S) ==
    IF S = {} THEN 0
    ELSE LET l == CHOOSE l \in S : TRUE
         IN  PointLight_intensity(self.lights[l], i)
             + SumIntensity(self, i, S \ {l})

\* C10: lightning is the sum of the contributions of exactly the lights
\* whose shadow ray hits no model anywhere in its interval.
C10_LightningSumsUnoccluded ==
    \A p \in Pixels :
        /\ \A k \in WaitingFrames(p) :
               task[p].stack[k].intensity
                   = SumIntensity(scene, task[p].stack[k].hit.v.intersection,
                         Unoccluded(scene, task[p].stack[k].hit.v.intersection))
        /\ (Returned(p) /\ task[p].ret.v.frame.hit.some) =>
               task[p].ret.v.frame.intensity
                   = SumIntensity(scene, task[p].ret.v.frame.hit.v.intersection,
                         Unoccluded(scene, task[p].ret.v.frame.hit.v.intersection))

\* The distance of the closest hit along light l's shadow ray from i.
ShadowHitT(self, l, i) ==
    Scene_closest_intersection(self, ShadowRay(self.lights[l], i)).v.intersection.t

\* At one hit, a light that would contribute is occluded by a model beyond
\* it, and another light contributes.
C10_OccluderBeyondLightWitness ==
    \E p \in Pixels :
        /\ Returned(p)
        /\ task[p].ret.v.frame.hit.some
        /\ LET i == task[p].ret.v.frame.hit.v.intersection
           IN  /\ \E l \in 1..Len(scene.lights) \ Unoccluded(scene, i) :
                      /\ PointLight_intensity(scene.lights[l], i) > 0
                      /\ ShadowHitT(scene, l, i)
                             > Vec3_len(Vec3_sub(scene.lights[l].position, i.point))
               /\ \E l \in Unoccluded(scene, i) :
                      PointLight_intensity(scene.lights[l], i) > 0
               /\ task[p].ret.v.frame.intensity > 0

\* The colour the recursive call of a returned invocation f came back with.
ReflectedColor(f) ==
    Scene_trace_limited(scene, ReflectionRay(f.ray, f.hit.v.intersection),
                        RecursionDepth(f.depth))

\* The blend with one truncation, after the two weighted terms are added.
BlendOnce(color, reflected_color, reflective) ==
    [k \in 1..3 |->
        AsU8(FMul(F(color[k]), F(1) - reflective)
             + FMul(F(reflected_color[k]), reflective))]

C16_NoOverflowNoUnderflow ==
    blend.pc = "blended" =>
        /\ blend.cr + blend.cl <= U8_MAX
        /\ blend.result = blend.cr + blend.cl
        /\ blend.result
               = Blend(<<blend.color, blend.color, blend.color>>,
                       <<blend.reflected_color, blend.reflected_color,
                         blend.reflected_color>>,
                       blend.reflective)[1]
        /\ blend.depth >= 1
        /\ blend.next_depth = blend.depth - 1

\* Both channels are 255, the reflectivity lies strictly between 0 and 1,
\* and the last level of recursion has blended them.
C16_BrightestWitness ==
    /\ blend.pc = "blended"
    /\ blend.color = U8_MAX
    /\ blend.reflected_color = U8_MAX
    /\ blend.reflective > 0
    /\ blend.reflective < F(1)
    /\ blend.depth = 1
    /\ blend.next_depth = 0

====
